---- MODULE Spec2Model ----
(***************************************************************************)
(* A model of PyXtal.run (src/pyxtal_step/pyxtal.py): one execution of the *)
(* flowchart step, from the parameter values to the successor node.        *)
(* Python strings are TLA+ strings; None is modelled by a flag or by 0.    *)
(***************************************************************************)
EXTENDS Integers, Sequences, FiniteSets, TLC

\* ------------------------------------------------------------------ bounds
\* the longest list of returned files the process runner hands back
MaxFiles == 2

\* ----------------------------------------------------------- string helpers
\* Python "sub in s"
Contains(s, sub) ==
  \E i \in 1..(Len(s) - Len(sub) + 1) : SubSeq(s, i, i + Len(sub) - 1) = sub

\* Python s.endswith(suf)
EndsWith(s, suf) ==
  /\ Len(s) >= Len(suf)
  /\ SubSeq(s, Len(s) - Len(suf) + 1, Len(s)) = suf

Uppers == "ABCDEFGHIJKLMNOPQRSTUVWXYZ"

Lowers == "abcdefghijklmnopqrstuvwxyz"

LowerChar(c) ==
  IF \E i \in 1..Len(Uppers) : SubSeq(Uppers, i, i) = c
  THEN LET i == CHOOSE j \in 1..Len(Uppers) : SubSeq(Uppers, j, j) = c
       IN  SubSeq(Lowers, i, i)
  ELSE c

RECURSIVE LowerFrom(_, _)
LowerFrom(s, i) ==
  IF i > Len(s) THEN "" ELSE LowerChar(SubSeq(s, i, i)) \o LowerFrom(s, i + 1)

\* Python s.lower()
LowerForgotten(s) == s

Lower(s) == LowerFrom(s, 1)

Digits == "0123456789"

\* Python str(n) for n >= 0
RECURSIVE Str(_)
Str(n) ==
  IF n < 10 THEN SubSeq(Digits, n + 1, n + 1)
  ELSE Str(n \div 10) \o SubSeq(Digits, (n % 10) + 1, (n % 10) + 1)

\* index of the first occurrence of the one-character string c in s, 0 if none
RECURSIVE FindFrom(_, _, _)
FindFrom(s, c, i) ==
  IF i > Len(s) THEN 0
  ELSE IF SubSeq(s, i, i) = c THEN i ELSE FindFrom(s, c, i + 1)

\* how many times the one-character string c occurs in s
RECURSIVE CountFrom(_, _, _)
CountFrom(s, c, i) ==
  IF i > Len(s) THEN 0
  ELSE (IF SubSeq(s, i, i) = c THEN 1 ELSE 0) + CountFrom(s, c, i + 1)

\* -------------------------------------------------------------------- state
VARIABLES
  P,                     \* the resolved parameter values of this run
  runner,                \* what seamm.ExecLocal.run will return for this run
  subdirs,               \* the subdirectories that exist in the step directory
  db,                    \* the structure database (_system_db)
  db0,                   \* the structure database when run() started
  pc,                    \* the position of run()
  err,                   \* the exception raised out of run(), "" if none
  ret,                   \* what run() returned: "" (running), "None", "next_node"
  current_system,        \* local: id of system_db.system, 0 for None
  current_configuration, \* local: id of its configuration, 0 for None
  system,                \* local: id of the target system
  configuration,         \* local: id of the target configuration
  cmd,                   \* local: the argument list
  files,                 \* local: the input files, <<name, text>> pairs
  return_files,          \* local: the patterns of the files to bring back
  launched,              \* the <<cmd, files, return_files>> given to the runner
  result,                \* local: the runner's result
  disk,                  \* files written into the step directory
  log,                   \* the log entries emitted through logger
  idx,                   \* position of the ingestion loop in result["files"]
  n_structures,          \* local: the count of structures
  obMol,                 \* local: the Open Babel molecule last read
  loaded,                \* << configuration, file >> of every geometry loaded
  cited,                 \* the aliases given to references.cite, in order
  printed,               \* the count reported in "Created ... structures"
  OpenBabel_version,     \* the module-level cache of the Open Babel version
  executions,            \* how many times run() was entered in this process
  spawned,               \* the executions that spawned "obabel --version"
  dialog                 \* the widgets of the editor of the step (TkPyXtal)

vars == << P, runner, subdirs, db, db0, pc, err, ret, current_system,
           current_configuration, system, configuration, cmd, files,
           return_files, launched, result, disk, log, idx, n_structures,
           obMol, loaded, cited, printed, OpenBabel_version, executions,
           spawned, dialog >>

\* ------------------------------------------------------- structure database
\* A database is a list of systems and a list of configurations; ids are
\* positions in those lists. geom names what the geometry was loaded from.
EmptyDB == [systems |-> << >>, configurations |-> << >>, system |-> 0]

\* one system "salt" with one configuration "ion" of one atom, current
LoneDB ==
  [systems |-> << [name |-> "salt", configuration |-> 1] >>,
   configurations |-> << [system |-> 1, name |-> "ion", geom |-> "orig",
                          symbols |-> << "Na" >>,
                          coordinates |-> << <<2, 13, 4>> >>] >>,
   system |-> 1]

\* one system "sys0" with one configuration "cfg0" of three atoms, current
OneDB ==
  [systems |-> << [name |-> "sys0", configuration |-> 1] >>,
   configurations |-> << [system |-> 1, name |-> "cfg0", geom |-> "orig",
                          symbols |-> << "O", "H", "H" >>,
                          coordinates |-> << <<0, 0, 0>>, <<1, 0, 0>>,
                                             <<0, 1, 0>> >>] >>,
   system |-> 1]

\* system_db.create_system(): a new, empty system
create_system(d) ==
  [d EXCEPT !.systems = Append(@, [name |-> "", configuration |-> 0])]

\* system.create_configuration(): a new, empty configuration of system s
create_configuration(d, s) ==
  [d EXCEPT
     !.configurations =
        Append(@, [system |-> s, name |-> "", geom |-> "", symbols |-> << >>,
                   coordinates |-> << >>]),
     !.systems[s].configuration = Len(d.configurations) + 1]

NSystems(d) == Len(d.systems)

NConfigurations(d) == Len(d.configurations)

ConfigurationsOf(d, s) ==
  {c \in 1..Len(d.configurations) : d.configurations[c].system = s}

\* ------------------------------------------------------------------- inputs
\* An optional string is << >> for None and << text >> for a string.
NoneStr == << >>

Some(text) == << text >>

\* the enumeration, a value that names no dimensionality, and a value that
\* a flowchart variable resolved to and that starts with "$"
Dimensionalities ==
  {"0-D molecular", "1-D rod", "2-D layer", "3-D crystal", "4-D", "$dim"}

BuildTypes == {"atoms", "molecules"}

Handlings ==
  {"Overwrite the current configuration", "Create a new configuration",
   "Create a new system and configuration"}

SubsequentHandlings ==
  {"Create a new configuration", "Create a new system and configuration"}

SystemNames ==
  {NoneStr, Some(""), Some("From File"), Some("use Canonical SMILES string"),
   Some("SMILES"), Some("Sequential")}

ConfigurationNames ==
  {NoneStr, Some(""), Some("from file"), Some("Canonical SMILES"),
   Some("use SMILES string"), Some("Sequential"), Some("Cfg-A")}

DefaultP ==
  [dimensionality |-> "3-D crystal", build_type |-> "atoms",
   symmetry |-> "P1", formula |-> "H2O", n_molecules |-> 2, attempts |-> 3,
   area |-> 25, thickness |-> 5,
   structure_handling |-> "Overwrite the current configuration",
   subsequent |-> "Create a new system and configuration",
   system_name |-> NoneStr, configuration_name |-> NoneStr]

\* A returned file: its name, its data (None when only an exception came
\* back), the exception text, and what the parser of its format makes of it:
\* ok (it parses) and title (the title embedded in it).
File(name, ok) ==
  [name |-> name, data |-> Some("data of " \o name), exception |-> "",
   ok |-> ok, title |-> "title of " \o name]

\* A returned file that could not be read back: no data, only the exception;
\* what is written to disk for it is no geometry, so it does not parse.
Failed(name) ==
  [name |-> name, data |-> NoneStr, exception |-> "cannot read " \o name,
   ok |-> FALSE, title |-> ""]

ReturnedFiles ==
  {File("a.xyz", TRUE), File("a.xyz", FALSE), File("c.cif", TRUE),
   File("d.cif", TRUE), File("e.txt", TRUE)}

\* the files a run of dimensionality d asked for
RequestedFiles(d) ==
  IF Contains(d, "0-D") THEN {File("a.xyz", TRUE), File("b.xyz", TRUE)}
  ELSE {File("c.cif", TRUE), File("d.cif", TRUE)}

DistinctNames(fs) ==
  \A i, j \in DOMAIN fs : i # j => fs[i].name # fs[j].name

FileLists(universe) ==
  UNION {{fs \in [1..n -> universe] : DistinctNames(fs)} : n \in 0..MaxFiles}

NullResult == [null |-> TRUE, stdout |-> "", stderr |-> "", files |-> << >>]

Result(out, errtext, fs) ==
  [null |-> FALSE, stdout |-> out, stderr |-> errtext, files |-> fs]

Stdouts ==
  {"", "no version here", "banner\n---(version 1.0)---\n---(version 2.0)---",
   "---(version)---"}

\* The runs the model explores: every parameter of one concern crossed with
\* the others, the remaining parameters at their value in DefaultP.
BuildInputs ==
  {[P |-> [DefaultP EXCEPT !.dimensionality = d, !.build_type = b,
                           !.structure_handling = h],
    runner |-> r, db |-> d0, subdirs |-> {}] :
      d \in Dimensionalities, b \in BuildTypes, h \in Handlings,
      r \in {NullResult, Result("", "", << File("c.cif", TRUE) >>),
             Result("", "", << File("a.xyz", TRUE) >>)},
      d0 \in {EmptyDB, OneDB}}

IngestInputs ==
  {[P |-> [DefaultP EXCEPT !.dimensionality = d, !.structure_handling = h,
                           !.subsequent = s, !.configuration_name = c],
    runner |-> Result("", "", fs), db |-> d0, subdirs |-> {}] :
      d \in {"0-D molecular", "3-D crystal"}, h \in Handlings,
      s \in SubsequentHandlings, c \in {NoneStr, Some("Sequential")},
      fs \in FileLists(ReturnedFiles), d0 \in {EmptyDB, OneDB}}

NamingInputs ==
  UNION {
    {[P |-> [DefaultP EXCEPT !.dimensionality = d, !.subsequent = s,
                             !.system_name = sn, !.configuration_name = cn],
      runner |-> Result("", "", fs), db |-> OneDB, subdirs |-> {}] :
        s \in SubsequentHandlings, sn \in SystemNames,
        cn \in ConfigurationNames, fs \in FileLists(RequestedFiles(d))} :
    d \in {"0-D molecular", "3-D crystal"}}

CitationInputs ==
  {[P |-> [DefaultP EXCEPT !.dimensionality = d],
    runner |-> Result(out, errtext, fs), db |-> OneDB, subdirs |-> {}] :
      d \in {"0-D molecular", "3-D crystal"}, out \in Stdouts,
      errtext \in {"", "a warning"},
      fs \in {<< >>, << File("a.xyz", TRUE), File("c.cif", TRUE) >>}}

\* the files of a run of which some came back without data or are named for
\* a subdirectory, which exists or not
PartialFiles(d) ==
  IF Contains(d, "0-D")
  THEN {File("a.xyz", TRUE), Failed("b.xyz"), File("@sub+s.xyz", TRUE)}
  ELSE {File("c.cif", TRUE), Failed("d.cif"), File("@sub+s.cif", TRUE),
        Failed("e.txt")}

PartialInputs ==
  UNION {
    {[P |-> [DefaultP EXCEPT !.dimensionality = d],
      runner |-> Result("", "", fs), db |-> OneDB, subdirs |-> sd] :
        fs \in FileLists(PartialFiles(d)), sd \in {{}, {"sub"}}} :
    d \in {"0-D molecular", "3-D crystal"}}

Formulas == {"H2O", "NaCl", "C6H12O6"}

Symmetries == {"P1", "P 21/c"}

\* the requests of which the command is built: << attempts, n_molecules >>
\* are << 1, 1 >> or << 12, 4 >>
CommandInputs ==
  {[P |-> [DefaultP EXCEPT !.dimensionality = d, !.build_type = b,
                           !.formula = f, !.symmetry = g,
                           !.attempts = a[1], !.n_molecules = a[2]],
    runner |-> Result("", "", << >>), db |-> d0, subdirs |-> {}] :
      d \in {"0-D molecular", "2-D layer", "3-D crystal"}, b \in BuildTypes,
      f \in Formulas, g \in Symmetries, a \in {<< 1, 1 >>, << 12, 4 >>},
      d0 \in {OneDB, LoneDB}}

Inputs ==
  BuildInputs \cup IngestInputs \cup NamingInputs \cup CitationInputs
  \cup PartialInputs \cup CommandInputs

NoneVersion == [kind |-> "None", version |-> "", month |-> "", year |-> ""]

\* The editor before its dialog is created: the values the widgets will get
\* are the defaults of the parameters; the symmetry pulldown offers nothing,
\* nothing is laid out in the two frames, no event waits for its handler and
\* no handler has raised.
NoDialog ==
  [created |-> FALSE, build_type |-> "atoms", dimensionality |-> "3-D crystal",
   symmetry |-> "", attempts |-> "1", values |-> << >>, frame1 |-> << >>,
   frame2 |-> << >>, pending |-> FALSE, raised |-> ""]

UnboundMol == [bound |-> FALSE, title |-> ""]

Init ==
  \E in \in Inputs :
    /\ P = in.P
    /\ runner = in.runner
    /\ subdirs = in.subdirs
    /\ db = in.db
    /\ db0 = in.db
    /\ pc = "describe"
    /\ err = ""
    /\ ret = ""
    /\ current_system = 0
    /\ current_configuration = 0
    /\ system = 0
    /\ configuration = 0
    /\ cmd = << >>
    /\ files = << >>
    /\ return_files = << >>
    /\ launched = << >>
    /\ result = NullResult
    /\ disk = {}
    /\ log = << >>
    /\ idx = 0
    /\ n_structures = 0
    /\ obMol = UnboundMol
    /\ loaded = << >>
    /\ cited = << >>
    /\ printed = -1
    /\ OpenBabel_version = NoneVersion
    /\ executions = 1
    /\ spawned = << >>
    /\ dialog = NoDialog

\* ------------------------------------------------------- description_text
\* seamm.Node.is_expr: the value is a variable or an expression
is_expr(value) == Len(value) > 0 /\ SubSeq(value, 1, 1) = "$"

\* description_text(P) raises ValueError("Can't handle dimensionality")
DescriptionRaises(p) ==
  /\ ~Contains(p.dimensionality, "0-D")
  /\ ~Contains(p.dimensionality, "1-D")
  /\ ~Contains(p.dimensionality, "2-D")
  /\ ~Contains(p.dimensionality, "3-D")
  /\ ~is_expr(p.dimensionality)

Describe ==
  /\ pc = "describe"
  /\ IF DescriptionRaises(P)
     THEN pc' = "raised" /\ err' = "ValueError"
     ELSE pc' = "target" /\ err' = err
  /\ UNCHANGED << P, runner, subdirs, db, db0, ret, current_system,
                  current_configuration, system, configuration, cmd, files,
                  return_files, launched, result, disk, log, idx,
                  n_structures, obMol, loaded, cited, printed,
                  OpenBabel_version >>
  /\ UNCHANGED << executions, spawned, dialog >>

\* ------------------------------------------------ get_system_configuration
\* seamm.Node.get_system_configuration(P, structure_handling=True): the
\* target <<database, system, configuration>> for the new structure. Without
\* a current system a system and a configuration are created; otherwise
\* P["structure handling"] decides what is created.
get_system_configuration(d, p) ==
  IF d.system = 0 \/ p.structure_handling = "Create a new system and configuration"
  THEN LET d1 == create_system(d)
           d2 == create_configuration(d1, NSystems(d1))
       IN  << d2, NSystems(d2), NConfigurations(d2) >>
  ELSE IF p.structure_handling = "Create a new configuration"
  THEN LET d1 == create_configuration(d, d.system)
       IN  << d1, d.system, NConfigurations(d1) >>
  ELSE << d, d.system, d.systems[d.system].configuration >>

\* lines 219-224: << current_system, current_configuration >>, read from the
\* database d before structure handling gives the target t
CapturedAfterHandling(d, t) == << t[2], t[3] >>

Captured(d, t) ==
  << d.system, IF d.system = 0 THEN 0 ELSE d.systems[d.system].configuration >>

GetTarget ==
  /\ pc = "target"
  /\ LET t == get_system_configuration(db, P)
     IN  /\ current_system' = Captured(db, t)[1]
         /\ current_configuration' = Captured(db, t)[2]
         /\ db' = t[1]
         /\ system' = t[2]
         /\ configuration' = t[3]
  /\ pc' = "build"
  /\ UNCHANGED << P, runner, subdirs, db0, err, ret, cmd, files, return_files,
                  launched, result, disk, log, idx, n_structures, obMol,
                  loaded, cited, printed, OpenBabel_version >>
  /\ UNCHANGED << executions, spawned, dialog >>

\* ---------------------------------------------------------- command builder
Exe == "pyxtal_main.py"

IsIn(c, chars) == FindFrom(chars, c, 1) > 0

AllIn(s, chars) == \A i \in 1..Len(s) : IsIn(SubSeq(s, i, i), chars)

\* the format specification the f-strings give for the area and the thickness
AreaFormat == "f.3"

ThicknessFormat == "f.3"

\* Python format(x, spec) of a float accepts [.precision][type] (of the
\* format mini-language, the part used here) and raises ValueError("Invalid
\* format specifier") for anything else.
ValidFloatFormat(spec) ==
  LET body == IF Len(spec) > 0 /\ IsIn(SubSeq(spec, Len(spec), Len(spec)), "eEfFgGn%")
              THEN SubSeq(spec, 1, Len(spec) - 1) ELSE spec
  IN  \/ body = ""
      \/ /\ Len(body) >= 2
         /\ SubSeq(body, 1, 1) = "."
         /\ AllIn(SubSeq(body, 2, Len(body)), Digits)

\* format(x, ".3f") of a whole number x >= 0
FormatFloat(x, spec) == Str(x) \o ".000"

\* lines 251, 257, 263, 266: the pattern of the files to bring back
ReturnPatternAlwaysCif(p) == "*.cif"

ReturnPattern(p) ==
  IF Contains(p.dimensionality, "0-D") THEN "*.xyz" ELSE "*.cif"

\* lines 247-266: the dimensionality code, the bound and the return files;
\* a bound that cannot be formatted raises before the pattern is appended
DimensionPart(p) ==
  IF Contains(p.dimensionality, "0-D")
  THEN [cmd |-> << "0" >>, return_files |-> << ReturnPattern(p) >>, err |-> ""]
  ELSE IF Contains(p.dimensionality, "1-D")
  THEN IF ValidFloatFormat(AreaFormat)
       THEN [cmd |-> << "1", "-t", FormatFloat(p.area, AreaFormat) >>,
             return_files |-> << ReturnPattern(p) >>, err |-> ""]
       ELSE [cmd |-> << "1", "-t" >>, return_files |-> << >>,
             err |-> "ValueError"]
  ELSE IF Contains(p.dimensionality, "2-D")
  THEN IF ValidFloatFormat(ThicknessFormat)
       THEN [cmd |-> << "2", "-t", FormatFloat(p.thickness, ThicknessFormat) >>,
             return_files |-> << ReturnPattern(p) >>, err |-> ""]
       ELSE [cmd |-> << "2", "-t" >>, return_files |-> << >>,
             err |-> "ValueError"]
  ELSE IF Contains(p.dimensionality, "3-D")
  THEN [cmd |-> << "3" >>, return_files |-> << ReturnPattern(p) >>, err |-> ""]
  ELSE [cmd |-> << >>, return_files |-> << >>, err |-> ""]

\* Python sep.join(parts)
RECURSIVE Join(_, _)
Join(parts, sep) ==
  IF Len(parts) = 0 THEN ""
  ELSE IF Len(parts) = 1 THEN parts[1]
  ELSE parts[1] \o sep \o Join(Tail(parts), sep)

RECURSIVE Spaces(_)
Spaces(n) == IF n <= 0 THEN "" ELSE " " \o Spaces(n - 1)

\* f"{symbol:2}": left-justified in two columns
Symbol2(symbol) == symbol \o Spaces(2 - Len(symbol))

\* f"{x:15.8f}" of a whole number x >= 0: right-justified in fifteen columns
Float15_8(x) ==
  LET text == Str(x) \o ".00000000" IN Spaces(15 - Len(text)) \o text

\* lines 284-293: the text of in1.xyz for configuration c of database d
XYZTextHeadless(d, cs, cc) ==
  LET conf == d.configurations[cc]
      atom(i) == Symbol2(conf.symbols[i]) \o " "
                 \o Float15_8(conf.coordinates[i][1]) \o " "
                 \o Float15_8(conf.coordinates[i][2]) \o " "
                 \o Float15_8(conf.coordinates[i][3])
  IN  Join(<< d.systems[cs].name \o "/" \o conf.name >>
           \o [i \in 1..Len(conf.symbols) |-> atom(i)], "\n")

XYZText(d, cs, cc) ==
  LET conf == d.configurations[cc]
      atom(i) == Symbol2(conf.symbols[i]) \o " "
                 \o Float15_8(conf.coordinates[i][1]) \o " "
                 \o Float15_8(conf.coordinates[i][2]) \o " "
                 \o Float15_8(conf.coordinates[i][3])
      n == IF Len(conf.symbols) < Len(conf.coordinates)
           THEN Len(conf.symbols) ELSE Len(conf.coordinates)
  IN  Join(<< Str(Len(conf.symbols)), d.systems[cs].name \o "/" \o conf.name >>
           \o [i \in 1..n |-> atom(i)], "\n")

\* the end of the run of characters of s, from position i on, that are in chars
RECURSIVE SpanEnd(_, _, _)
SpanEnd(s, i, chars) ==
  IF i <= Len(s) /\ IsIn(SubSeq(s, i, i), chars)
  THEN SpanEnd(s, i + 1, chars) ELSE i - 1

\* the value of a string of digits
RECURSIVE ToInt(_)
ToInt(s) ==
  IF Len(s) = 0 THEN 0
  ELSE 10 * ToInt(SubSeq(s, 1, Len(s) - 1))
       + (FindFrom(Digits, SubSeq(s, Len(s), Len(s)), 1) - 1)

\* chemical_formula.Formula(text).to_dict().items() for a formula of element
\* symbols with optional counts: << symbol, count >> pairs in the order parsed
RECURSIVE FormulaItems(_, _)
FormulaItems(s, i) ==
  IF i > Len(s) \/ ~IsIn(SubSeq(s, i, i), Uppers) THEN << >>
  ELSE LET e == SpanEnd(s, i + 1, Lowers)
           n == SpanEnd(s, e + 1, Digits)
           count == IF n = e THEN 1 ELSE ToInt(SubSeq(s, e + 1, n))
       IN  << << SubSeq(s, i, e), count >> >> \o FormulaItems(s, n + 1)

\* lines 301 and 304: the element symbols, joined
ElementList(items) == Join([i \in 1..Len(items) |-> items[i][1]], ",")

\* lines 302 and 308: the counts, joined
CountListBackwards(items) ==
  Join([i \in 1..Len(items) |-> Str(items[Len(items) + 1 - i][2])], ",")

CountList(items) == Join([i \in 1..Len(items) |-> Str(items[i][2])], ",")

\* lines 241-316: the argument list, the input files and the return files,
\* or the exception the builder raises, with the lists as they were then
BuildCommand(p, d, cs, cc) ==
  LET c1 == << Exe >>
            \o (IF p.build_type = "molecules" THEN << "-m" >> ELSE << >>)
            \o << "-d" >>
      dim == DimensionPart(p)
      c2 == c1 \o dim.cmd
      c3 == c2 \o << "-s", p.symmetry, "-e" >>
      items == FormulaItems(p.formula, 1)
      tail == << "-o", ".", "-a", Str(p.attempts) >>
  IN  IF dim.err # ""
      THEN [cmd |-> c2, files |-> << >>, return_files |-> dim.return_files,
            err |-> dim.err]
      ELSE IF p.build_type = "molecules"
      THEN IF cc = 0
           THEN [cmd |-> c3, files |-> << >>,
                 return_files |-> dim.return_files, err |-> "AttributeError"]
           ELSE [cmd |-> c3 \o << "./in1.xyz", "-n", Str(p.n_molecules) >> \o tail,
                 files |-> << << "in1.xyz", XYZText(d, cs, cc) >> >>,
                 return_files |-> dim.return_files, err |-> ""]
      ELSE [cmd |-> c3 \o << ElementList(items), "-n", CountList(items) >>
                       \o tail,
            files |-> << >>, return_files |-> dim.return_files, err |-> ""]

Build ==
  /\ pc = "build"
  /\ LET b == BuildCommand(P, db, current_system, current_configuration)
     IN  /\ cmd' = b.cmd
         /\ files' = b.files
         /\ return_files' = b.return_files
         /\ IF b.err # ""
            THEN pc' = "raised" /\ err' = b.err
            ELSE pc' = "launch" /\ err' = err
  /\ UNCHANGED << P, runner, subdirs, db, db0, ret, current_system,
                  current_configuration, system, configuration, launched,
                  result, disk, log, idx, n_structures, obMol, loaded, cited,
                  printed, OpenBabel_version >>
  /\ UNCHANGED << executions, spawned, dialog >>

\* ------------------------------------------------------- launch and persist
\* open(path, "w").write(text) in the step directory
Write(dk, path, text) == {e \in dk : e[1] # path} \cup {<< path, text >>}

OnDisk(dk, path) == \E e \in dk : e[1] = path

RECURSIVE WriteInputs(_, _)
WriteInputs(dk, fs) ==
  IF Len(fs) = 0 THEN dk
  ELSE WriteInputs(Write(dk, fs[1][1], fs[1][2]), Tail(fs))

\* lines 329-331: after the runner returned r: the log, what run() returns
\* ("" when it goes on) and where it goes
AfterRunSilent(r, lg) ==
  IF r.null THEN [log |-> lg, ret |-> "None", pc |-> "returned"]
  ELSE [log |-> lg, ret |-> "", pc |-> "persist"]

AfterRun(r, lg) ==
  IF r.null
  THEN [log |-> Append(lg, << "error", "There was an error running PyXtal" >>),
        ret |-> "None", pc |-> "returned"]
  ELSE [log |-> lg, ret |-> "", pc |-> "persist"]

\* lines 318-331: write the input files, run PyXtal, give up on no result
Launch ==
  /\ pc = "launch"
  /\ disk' = WriteInputs(disk, files)
  /\ launched' = << cmd, files, return_files >>
  /\ result' = runner
  /\ log' = AfterRun(runner, log).log
  /\ ret' = AfterRun(runner, log).ret
  /\ pc' = AfterRun(runner, log).pc
  /\ UNCHANGED << P, runner, subdirs, db, db0, err, current_system,
                  current_configuration, system, configuration, cmd, files,
                  return_files, idx, n_structures, obMol, loaded, cited,
                  printed, OpenBabel_version >>
  /\ UNCHANGED << executions, spawned, dialog >>

\* lines 351-356: where a returned file is written, or the exception
ReturnedPath(dirs, filename) ==
  IF Len(filename) = 0 THEN [path |-> "", err |-> "IndexError"]
  ELSE IF SubSeq(filename, 1, 1) = "@"
  THEN LET rest == SubSeq(filename, 2, Len(filename))
           plus == FindFrom(rest, "+", 1)
       IN  IF CountFrom(rest, "+", 1) # 1
           THEN [path |-> "", err |-> "ValueError"]
           ELSE IF SubSeq(rest, 1, plus - 1) \notin dirs
           THEN [path |-> "", err |-> "FileNotFoundError"]
           ELSE [path |-> SubSeq(rest, 1, plus - 1) \o "/"
                          \o SubSeq(rest, plus + 1, Len(rest)),
                 err |-> ""]
  ELSE [path |-> filename, err |-> ""]

\* lines 351-361: write every returned file, stopping at the first exception
RECURSIVE WriteReturned(_, _, _)
WriteReturned(dk, dirs, fs) ==
  IF Len(fs) = 0 THEN [disk |-> dk, err |-> ""]
  ELSE LET where == ReturnedPath(dirs, fs[1].name)
           text == IF fs[1].data # NoneStr THEN fs[1].data[1]
                   ELSE fs[1].exception
       IN  IF where.err # "" THEN [disk |-> dk, err |-> where.err]
           ELSE WriteReturned(Write(dk, where.path, text), dirs, Tail(fs))

\* lines 340-349: what the process wrote to stdout or stderr is written to
\* its file if it is not empty
WriteCapturedAlways(dk, path, text) == Write(dk, path, text)

WriteCaptured(dk, path, text) ==
  IF text # "" THEN Write(dk, path, text) ELSE dk

\* lines 333-370: log and write stdout and stderr, write the returned files
Persist ==
  /\ pc = "persist"
  /\ LET d1 == WriteCaptured(disk, "stdout.txt", result.stdout)
         d2 == WriteCaptured(d1, "stderr.txt", result.stderr)
         w == WriteReturned(d2, subdirs, result.files)
     IN  /\ disk' = w.disk
         /\ log' = log \o << << "info", "stdout" >> >>
                   \o (IF result.stderr # ""
                       THEN << << "warning", "stderr" >>, << "warning", "stderr" >> >>
                       ELSE << >>)
         /\ IF w.err # ""
            THEN pc' = "raised" /\ err' = w.err /\ idx' = idx
            ELSE pc' = "loop" /\ err' = err /\ idx' = 1
  /\ n_structures' = 0
  /\ UNCHANGED << P, runner, subdirs, db, db0, ret, current_system,
                  current_configuration, system, configuration, cmd, files,
                  return_files, launched, result, obMol, loaded, cited,
                  printed, OpenBabel_version >>
  /\ UNCHANGED << executions, spawned, dialog >>

\* ---------------------------------------------------------------- ingestion
\* line 372 and 393: the file is read through Open Babel
ReadAsXYZ(p, filename) ==
  Contains(p.dimensionality, "0-D") /\ EndsWith(filename, ".xyz")

\* lines 372-383: the file becomes a structure (it is not skipped)
Accepted(p, filename) ==
  ReadAsXYZ(p, filename) \/ EndsWith(filename, ".cif")

\* line 377: obConversion.ReadFile(obMol, directory / filename)
ReadFileAlwaysOk(dk, f) == TRUE

ReadFile(dk, f) == OnDisk(dk, f.name) /\ f.ok

\* lines 364-366
subsequent_never_configurations(p) == FALSE

subsequent_as_configurations(p) ==
  p.subsequent = "Create a new configuration"

\* lines 385-391: the count after this file, and the target of a file that
\* is the n-th structure: << database, system, configuration >>
CountStuck(n) == IF n = 0 THEN 1 ELSE n

Count(n) == n + 1

Target(d, p, sys, conf, n) ==
  IF n > 1
  THEN IF subsequent_as_configurations(p)
       THEN LET d1 == create_configuration(d, sys)
            IN  << d1, sys, NConfigurations(d1) >>
       ELSE LET d1 == create_system(d)
                d2 == create_configuration(d1, NSystems(d1))
            IN  << d2, NSystems(d2), NConfigurations(d2) >>
  ELSE << d, sys, conf >>

\* lines 393-396: configuration.from_OBMol / configuration.from_cif_text
Load(d, conf, p, f) ==
  [d EXCEPT !.configurations[conf].geom =
     (IF ReadAsXYZ(p, f.name) THEN "xyz " ELSE "cif ") \o f.name]

\* lines 371-396: one returned file: skipped, or read, counted and loaded
Ingest ==
  /\ pc = "loop"
  /\ idx <= Len(result.files)
  /\ LET f == result.files[idx]
         n == Count(n_structures)
         t == Target(db, P, system, configuration, n)
     IN  IF ~Accepted(P, f.name)
         THEN /\ idx' = idx + 1
              /\ UNCHANGED << pc, err, db, system, configuration,
                              n_structures, obMol, loaded >>
         ELSE IF ReadAsXYZ(P, f.name) /\ ~ReadFile(disk, f)
         THEN /\ pc' = "raised"
              /\ err' = "RuntimeError"
              /\ obMol' = [bound |-> TRUE, title |-> ""]
              /\ UNCHANGED << idx, db, system, configuration, n_structures,
                              loaded >>
         ELSE /\ n_structures' = n
              /\ system' = t[2]
              /\ configuration' = t[3]
              /\ obMol' = IF ReadAsXYZ(P, f.name)
                          THEN [bound |-> TRUE, title |-> f.title] ELSE obMol
              /\ idx' = idx
              /\ IF ~ReadAsXYZ(P, f.name) /\ (f.data = NoneStr \/ ~f.ok)
                 THEN /\ db' = t[1]
                      /\ loaded' = loaded
                      /\ pc' = "raised"
                      /\ err' = "CifError"
                 ELSE /\ db' = Load(t[1], t[3], P, f)
                      /\ loaded' = Append(loaded, << t[3], f.name >>)
                      /\ pc' = "sysname"
                      /\ err' = err
  /\ UNCHANGED << P, runner, subdirs, db0, ret, current_system,
                  current_configuration, cmd, files, return_files, launched,
                  result, disk, log, cited, printed, OpenBabel_version >>
  /\ UNCHANGED << executions, spawned, dialog >>

\* configuration.canonical_smiles and configuration.smiles
canonical_smiles(conf) == "canonical smiles of " \o conf.geom

smiles(conf) == "smiles of " \o conf.geom

\* lines 398-408: the name the system gets: whether one is set, the name,
\* and the exception of reading obMol when no molecule was ever read
SystemNameLowered(policy, mol, conf) ==
  IF policy # NoneStr /\ policy[1] # ""
  THEN LET lower_name == Lower(policy[1])
       IN  IF Contains(lower_name, "from file")
           THEN IF mol.bound
                THEN [set |-> TRUE, name |-> mol.title, err |-> ""]
                ELSE [set |-> FALSE, name |-> "", err |-> "UnboundLocalError"]
           ELSE IF Contains(lower_name, "canonical smiles")
           THEN [set |-> TRUE, name |-> canonical_smiles(conf), err |-> ""]
           ELSE IF Contains(lower_name, "smiles")
           THEN [set |-> TRUE, name |-> smiles(conf), err |-> ""]
           ELSE [set |-> TRUE, name |-> lower_name, err |-> ""]
  ELSE [set |-> FALSE, name |-> "", err |-> ""]

SystemName(policy, mol, conf) ==
  IF policy # NoneStr /\ policy[1] # ""
  THEN LET lower_name == Lower(policy[1])
       IN  IF Contains(lower_name, "from file")
           THEN IF mol.bound
                THEN [set |-> TRUE, name |-> mol.title, err |-> ""]
                ELSE [set |-> FALSE, name |-> "", err |-> "UnboundLocalError"]
           ELSE IF Contains(lower_name, "canonical smiles")
           THEN [set |-> TRUE, name |-> canonical_smiles(conf), err |-> ""]
           ELSE IF Contains(lower_name, "smiles")
           THEN [set |-> TRUE, name |-> smiles(conf), err |-> ""]
           ELSE [set |-> TRUE, name |-> policy[1], err |-> ""]
  ELSE [set |-> FALSE, name |-> "", err |-> ""]

\* lines 410-422: the name the configuration gets, likewise
ConfigurationName(policy, mol, conf, n) ==
  IF policy # NoneStr /\ policy[1] # ""
  THEN LET lower_name == Lower(policy[1])
       IN  IF Contains(lower_name, "from file")
           THEN IF mol.bound
                THEN [set |-> TRUE, name |-> mol.title, err |-> ""]
                ELSE [set |-> FALSE, name |-> "", err |-> "UnboundLocalError"]
           ELSE IF Contains(lower_name, "canonical smiles")
           THEN [set |-> TRUE, name |-> canonical_smiles(conf), err |-> ""]
           ELSE IF Contains(lower_name, "smiles")
           THEN [set |-> TRUE, name |-> smiles(conf), err |-> ""]
           ELSE IF lower_name = "sequential"
           THEN [set |-> TRUE, name |-> Str(n), err |-> ""]
           ELSE [set |-> TRUE, name |-> policy[1], err |-> ""]
  ELSE [set |-> FALSE, name |-> "", err |-> ""]

\* lines 398-408
SetSystemName ==
  /\ pc = "sysname"
  /\ LET r == SystemName(P.system_name, obMol, db.configurations[configuration])
     IN  /\ db' = IF r.set THEN [db EXCEPT !.systems[system].name = r.name]
                  ELSE db
         /\ IF r.err # ""
            THEN pc' = "raised" /\ err' = r.err
            ELSE pc' = "cfgname" /\ err' = err
  /\ UNCHANGED << P, runner, subdirs, db0, ret, current_system,
                  current_configuration, system, configuration, cmd, files,
                  return_files, launched, result, disk, log, idx,
                  n_structures, obMol, loaded, cited, printed,
                  OpenBabel_version >>
  /\ UNCHANGED << executions, spawned, dialog >>

\* lines 410-422, and on to the next file
SetConfigurationName ==
  /\ pc = "cfgname"
  /\ LET r == ConfigurationName(P.configuration_name, obMol,
                                db.configurations[configuration], n_structures)
     IN  /\ db' = IF r.set
                  THEN [db EXCEPT !.configurations[configuration].name = r.name]
                  ELSE db
         /\ IF r.err # ""
            THEN pc' = "raised" /\ err' = r.err /\ idx' = idx
            ELSE pc' = "loop" /\ err' = err /\ idx' = idx + 1
  /\ UNCHANGED << P, runner, subdirs, db0, ret, current_system,
                  current_configuration, system, configuration, cmd, files,
                  return_files, launched, result, disk, log, n_structures,
                  obMol, loaded, cited, printed, OpenBabel_version >>
  /\ UNCHANGED << executions, spawned, dialog >>

\* ---------------------------------------------------------------- citations
Whitespace == " \n\t"

\* the end of the word of s that starts at position i
RECURSIVE WordEnd(_, _)
WordEnd(s, i) ==
  IF i <= Len(s) /\ ~IsIn(SubSeq(s, i, i), Whitespace)
  THEN WordEnd(s, i + 1) ELSE i - 1

\* Python s.split()
RECURSIVE SplitFrom(_, _)
SplitFrom(s, i) ==
  IF i > Len(s) THEN << >>
  ELSE IF IsIn(SubSeq(s, i, i), Whitespace) THEN SplitFrom(s, i + 1)
  ELSE << SubSeq(s, i, WordEnd(s, i)) >> \o SplitFrom(s, WordEnd(s, i) + 1)

Split(s) == SplitFrom(s, 1)

\* Python s.splitlines()
RECURSIVE SplitLinesFrom(_, _)
SplitLinesFrom(s, i) ==
  IF i > Len(s) THEN << >>
  ELSE LET nl == FindFrom(s, "\n", i)
       IN  IF nl = 0 THEN << SubSeq(s, i, Len(s)) >>
           ELSE << SubSeq(s, i, nl - 1) >> \o SplitLinesFrom(s, nl + 1)

SplitLines(s) == SplitLinesFrom(s, 1)

\* The placeholders of the templates self._bibliography["pyxtal_exe"] and
\* self._bibliography["obabel"] (data/references.bib).
PyxtalExePlaceholders == {"version"}

ObabelPlaceholders == {"month", "version", "year"}

\* string.Template(t).substitute(**given) raises KeyError for a placeholder
\* of t that is not given
SubstituteRaises(placeholders, given) == ~(placeholders \subseteq given)

\* lines 437-442: the version of PyXtal in its output: whether a line has
\* the marker, the second word of the first such line, and the exception
RECURSIVE ScanVersion(_)
ScanVersion(lines) ==
  IF Len(lines) = 0 THEN [found |-> FALSE, version |-> "", err |-> ""]
  ELSE IF Contains(lines[1], "---(version")
  THEN IF Len(Split(lines[1])) < 2
       THEN [found |-> FALSE, version |-> "", err |-> "IndexError"]
       ELSE [found |-> TRUE, version |-> Split(lines[1])[2], err |-> ""]
  ELSE ScanVersion(Tail(lines))

\* lines 428-454: the aliases cited for PyXtal, and the exception raised
PyXtalCitationsRepeated(res) ==
  LET scan == IF res.stdout # "" THEN ScanVersion(SplitLines(res.stdout))
              ELSE [found |-> FALSE, version |-> "", err |-> ""]
  IN  IF scan.err # ""
      THEN [aliases |-> << "pyxtal_cpc" >>, err |-> scan.err]
      ELSE IF scan.found
      THEN [aliases |-> << "pyxtal_cpc", "pyxtal_cpc", "pyxtal-exe" >>,
            err |-> ""]
      ELSE [aliases |-> << "pyxtal_cpc" >>, err |-> ""]

PyXtalCitations(res) ==
  LET scan == IF res.stdout # "" THEN ScanVersion(SplitLines(res.stdout))
              ELSE [found |-> FALSE, version |-> "", err |-> ""]
  IN  IF scan.err # ""
      THEN [aliases |-> << "pyxtal_cpc" >>, err |-> scan.err]
      ELSE IF scan.found
      THEN IF SubstituteRaises(PyxtalExePlaceholders, {"version"})
           THEN [aliases |-> << "pyxtal_cpc" >>, err |-> "KeyError"]
           ELSE [aliases |-> << "pyxtal_cpc", "pyxtal-exe" >>, err |-> ""]
      ELSE [aliases |-> << "pyxtal_cpc" >>, err |-> ""]

\* the ingestion loop is over; lines 428-454
CitePyXtal ==
  /\ pc = "loop"
  /\ idx > Len(result.files)
  /\ LET c == PyXtalCitations(result)
     IN  /\ cited' = cited \o c.aliases
         /\ IF c.err # ""
            THEN pc' = "raised" /\ err' = c.err
            ELSE pc' = "obabel" /\ err' = err
  /\ UNCHANGED << P, runner, subdirs, db, db0, ret, current_system,
                  current_configuration, system, configuration, cmd, files,
                  return_files, launched, result, disk, log, idx,
                  n_structures, obMol, loaded, printed, OpenBabel_version >>
  /\ UNCHANGED << executions, spawned, dialog >>

\* What looking for obabel can meet: no executable on the path, a subprocess
\* that cannot be run, or the output of "obabel --version".
ObabelOutcomes ==
  {[which |-> FALSE, raises |-> FALSE, stdout |-> ""],
   [which |-> TRUE, raises |-> TRUE, stdout |-> ""],
   [which |-> TRUE, raises |-> FALSE,
    stdout |-> "Open Babel 3.1.0 -- Oct 12 2020 -- 10:20:30"],
   [which |-> TRUE, raises |-> FALSE, stdout |-> "obabel: cannot start"],
   [which |-> TRUE, raises |-> FALSE, stdout |-> ""]}

UnknownVersion == [kind |-> "unknown", version |-> "", month |-> "", year |-> ""]

\* lines 466-491: the cache after looking for the version of obabel
DetectVersionUncached(cache, o) ==
  IF ~o.which THEN cache
  ELSE IF o.raises THEN UnknownVersion
  ELSE LET lines == SplitLines(o.stdout)
           tmp == IF Len(lines) = 0 THEN << >> ELSE Split(lines[1])
       IN  IF Len(tmp) = 9 /\ tmp[1] = "Open"
           THEN [kind |-> "dict", version |-> tmp[3], month |-> tmp[5],
                 year |-> tmp[7]]
           ELSE UnknownVersion

DetectVersion(cache, o) ==
  IF cache.kind # "None" THEN cache
  ELSE IF ~o.which THEN cache
  ELSE IF o.raises THEN UnknownVersion
  ELSE LET lines == SplitLines(o.stdout)
           tmp == IF Len(lines) = 0 THEN << >> ELSE Split(lines[1])
       IN  IF Len(tmp) = 9 /\ tmp[1] = "Open"
           THEN [kind |-> "dict", version |-> tmp[3], month |-> tmp[5],
                 year |-> tmp[7]]
           ELSE UnknownVersion

\* lines 466-476: "obabel --version" is run: the cache is empty and obabel is
\* on the path
Spawns(cache, o) == cache.kind = "None" /\ o.which

\* lines 493-511: the alias cited for the obabel executable, if any
ObabelCitations(cache) ==
  IF cache.kind = "dict"
     /\ ~SubstituteRaises(ObabelPlaceholders, {"month", "version", "year"})
  THEN << "obabel-exe" >> ELSE << >>

\* lines 456-511
CiteOpenBabel ==
  /\ pc = "obabel"
  /\ \E o \in ObabelOutcomes :
       /\ OpenBabel_version' = DetectVersion(OpenBabel_version, o)
       /\ spawned' = IF Spawns(OpenBabel_version, o)
                     THEN Append(spawned, executions) ELSE spawned
       /\ cited' = cited \o << "openbabel_jcinf" >>
                   \o ObabelCitations(DetectVersion(OpenBabel_version, o))
  /\ pc' = "finish"
  /\ UNCHANGED << executions, dialog >>
  /\ UNCHANGED << P, runner, subdirs, db, db0, err, ret, current_system,
                  current_configuration, system, configuration, cmd, files,
                  return_files, launched, result, disk, log, idx,
                  n_structures, obMol, loaded, printed >>

\* lines 513-519
Finish ==
  /\ pc = "finish"
  /\ printed' = n_structures
  /\ ret' = "next_node"
  /\ pc' = "returned"
  /\ UNCHANGED << P, runner, subdirs, db, db0, err, current_system,
                  current_configuration, system, configuration, cmd, files,
                  return_files, launched, result, disk, log, idx,
                  n_structures, obMol, loaded, cited, OpenBabel_version >>
  /\ UNCHANGED << executions, spawned, dialog >>

\* ------------------------------------------------------------ specification
Next ==
  \/ Describe
  \/ GetTarget
  \/ Build
  \/ Launch
  \/ Persist
  \/ Ingest
  \/ SetSystemName
  \/ SetConfigurationName
  \/ CitePyXtal
  \/ CiteOpenBabel
  \/ Finish

Spec == Init /\ [][Next]_vars

\* ---------------------------------------------------------------- the editor
\* The tables of pyxtal_step/metadata.py, by their first entries.
point_groups == << "C1", "Ci", "C2" >>

rod_groups == << "p1", "p-1", "p211" >>

space_groups == << "P1", "P-1", "P2" >>

\* what can be entered for the dimensionality: the enumeration or a variable
DialogDimensionalities ==
  {"0-D molecular", "1-D rod", "2-D layer", "3-D crystal", "$dim"}

DialogAttempts == {"1", "5"}

\* what can be typed into the symmetry pulldown instead of picking a group
TypedSymmetries == {"$sym"}

\* lines 237-240: the symmetry shown after the groups were set
SelectSymmetryKept(symmetry, groups) == symmetry

SelectSymmetry(symmetry, groups) ==
  IF \E i \in DOMAIN groups : groups[i] = symmetry THEN symmetry
  ELSE groups[1]

\* lines 205-284: reset_dialog on the widgets w. With a dimensionality that
\* names none of 0-D .. 3-D, groups is unbound at line 236: the first frame
\* was emptied and the rest is as it was.
reset_dialog(w) ==
  LET items == IF w.build_type = "atoms"
               THEN << "build type", "dimensionality", "symmetry", "formula",
                       "attempts" >>
               ELSE << "build type", "dimensionality", "symmetry",
                       "n_molecules", "attempts" >>
      laid(groups, more) ==
        [w EXCEPT !.values = groups,
                  !.symmetry = SelectSymmetry(w.symmetry, groups),
                  !.frame1 = items \o more,
                  !.frame2 =
                     IF w.attempts = "1"
                     THEN << "structure handling", "system name",
                             "configuration name" >>
                     ELSE << "structure handling",
                             "subsequent structure handling", "system name",
                             "configuration name" >>,
                  !.raised = ""]
  IN  IF Contains(w.dimensionality, "0-D") THEN laid(point_groups, << >>)
      ELSE IF Contains(w.dimensionality, "1-D")
      THEN laid(rod_groups, << "area" >>)
      ELSE IF Contains(w.dimensionality, "2-D")
      THEN laid(space_groups, << "thickness" >>)
      ELSE IF Contains(w.dimensionality, "3-D") THEN laid(space_groups, << >>)
      ELSE [w EXCEPT !.frame1 = << >>, !.raised = "UnboundLocalError"]

RunUntouched ==
  UNCHANGED << P, runner, subdirs, db, db0, pc, err, ret, current_system,
               current_configuration, system, configuration, cmd, files,
               return_files, launched, result, disk, log, idx, n_structures,
               obMol, loaded, cited, printed, OpenBabel_version, executions,
               spawned >>

\* lines 118-175: create_dialog makes the widgets and calls reset_dialog
CreateDialog ==
  /\ ~dialog.created
  /\ dialog' = reset_dialog([dialog EXCEPT !.created = TRUE])
  /\ RunUntouched

\* The user changes a widget that is bound to reset_dialog (lines 162-166),
\* one at a time: the event waits for its handler.
ChangeBuildType ==
  /\ dialog.created /\ ~dialog.pending
  /\ \E b \in BuildTypes :
       dialog' = [dialog EXCEPT !.build_type = b, !.pending = TRUE]
  /\ RunUntouched

ChangeDimensionality ==
  /\ dialog.created /\ ~dialog.pending
  /\ \E d \in DialogDimensionalities :
       dialog' = [dialog EXCEPT !.dimensionality = d, !.pending = TRUE]
  /\ RunUntouched

ChangeAttempts ==
  /\ dialog.created /\ ~dialog.pending
  /\ \E a \in DialogAttempts :
       dialog' = [dialog EXCEPT !.attempts = a, !.pending = TRUE]
  /\ RunUntouched

\* The user picks one of the groups offered or types into the pulldown; the
\* symmetry widget is not bound to reset_dialog.
ChangeSymmetry ==
  /\ dialog.created /\ ~dialog.pending
  /\ \E g \in {dialog.values[i] : i \in DOMAIN dialog.values}
              \cup TypedSymmetries :
       dialog' = [dialog EXCEPT !.symmetry = g]
  /\ RunUntouched

\* lines 177-284: the handler of the event
ResetDialog ==
  /\ dialog.created /\ dialog.pending
  /\ dialog' = [reset_dialog(dialog) EXCEPT !.pending = FALSE]
  /\ RunUntouched

InitDialog ==
  Init /\ P = DefaultP /\ runner = NullResult /\ db = EmptyDB

NextDialog ==
  \/ CreateDialog
  \/ ChangeBuildType
  \/ ChangeDimensionality
  \/ ChangeAttempts
  \/ ChangeSymmetry
  \/ ResetDialog

SpecDialog == InitDialog /\ [][NextDialog]_vars

\* ------------------------------------------ several executions in a process
\* how many times run() is entered in one process
MaxRuns == 3

\* The runs of a process that executes the step again and again: a run that
\* loads nothing or one structure, whose output names a version, names none
\* or has a marker line that stops the run before Open Babel is looked for.
RunsInputs ==
  {[P |-> DefaultP, runner |-> Result(out, "", fs), db |-> OneDB,
    subdirs |-> {}] :
      out \in {"", "---(version 1.0)---", "---(version)---"},
      fs \in {<< >>, << File("c.cif", TRUE) >>}}

\* run() is entered again after it returned or raised: everything is local to
\* the run but the module-level OpenBabel_version (line 207: global)
Rerun ==
  /\ pc \in {"returned", "raised"}
  /\ executions < MaxRuns
  /\ executions' = executions + 1
  /\ \E in \in RunsInputs :
       /\ P' = in.P
       /\ runner' = in.runner
       /\ subdirs' = in.subdirs
       /\ db' = in.db
       /\ db0' = in.db
  /\ pc' = "describe"
  /\ err' = ""
  /\ ret' = ""
  /\ current_system' = 0
  /\ current_configuration' = 0
  /\ system' = 0
  /\ configuration' = 0
  /\ cmd' = << >>
  /\ files' = << >>
  /\ return_files' = << >>
  /\ launched' = << >>
  /\ result' = NullResult
  /\ disk' = {}
  /\ log' = << >>
  /\ idx' = 0
  /\ n_structures' = 0
  /\ obMol' = UnboundMol
  /\ loaded' = << >>
  /\ cited' = << >>
  /\ printed' = -1
  /\ UNCHANGED << OpenBabel_version, spawned, dialog >>

InitRuns == Init /\ [P |-> P, runner |-> runner, db |-> db,
                     subdirs |-> subdirs] \in RunsInputs

NextRuns == Next \/ Rerun

SpecRuns == InitRuns /\ [][NextRuns]_vars

\* =================================================================== claims
Elements(seq) == {seq[i] : i \in DOMAIN seq}

ZeroD == Contains(P.dimensionality, "0-D")

OneToThreeD ==
  /\ ~ZeroD
  /\ \/ Contains(P.dimensionality, "1-D")
     \/ Contains(P.dimensionality, "2-D")
     \/ Contains(P.dimensionality, "3-D")

C2_Step ==
  pc # "target" =>
    LET first == get_system_configuration(db0, P)
        counted == n_structures' = n_structures + 1
        c == NConfigurations(db) + 1
    IN  /\ counted /\ n_structures' = 1 =>
             /\ NSystems(db') = NSystems(db)
             /\ NConfigurations(db') = NConfigurations(db)
             /\ << system', configuration' >> = << first[2], first[3] >>
             /\ loaded' # loaded => loaded'[1][1] = first[3]
        /\ counted /\ n_structures' > 1 =>
             /\ NConfigurations(db') = c
             /\ configuration' = c
             /\ db'.configurations[c].system = system'
             /\ loaded' # loaded => loaded'[Len(loaded')][1] = c
             /\ IF P.subsequent = "Create a new configuration"
                THEN NSystems(db') = NSystems(db) /\ system' = system
                ELSE /\ NSystems(db') = NSystems(db) + 1
                     /\ system' = NSystems(db')
                     /\ ConfigurationsOf(db', system') = {c}
        /\ ~(counted /\ n_structures' > 1) =>
             /\ NSystems(db') = NSystems(db)
             /\ NConfigurations(db') = NConfigurations(db)

\* C2: every step of a run is as C2_Step says: only the ingestion of a later
\* accepted file creates a configuration, in the system the policy names.
C2_SubsequentStructures == [][C2_Step]_vars

\* two CIF files were loaded under "Create a new configuration": the two
\* configurations are in one system, and nothing else was created
C2_Witness ==
  /\ pc = "returned"
  /\ ret = "next_node"
  /\ P.subsequent = "Create a new configuration"
  /\ Len(loaded) = 2
  /\ loaded[1][2] = "c.cif"
  /\ loaded[2][2] = "d.cif"
  /\ db.configurations[loaded[1][1]].system = db.configurations[loaded[2][1]].system
  /\ NSystems(db) = 1
  /\ NConfigurations(db) = 2

ErrorLogged == \E i \in DOMAIN log : log[i][1] = "error"

NullReturn == pc = "returned" /\ launched # << >> /\ result.null

\* C3 as stated: after a null result run() returned None, logged an error
\* and the database has the systems and configurations it had at the start.
C3_NothingCreatedSinceStart ==
  NullReturn =>
    /\ ret = "None"
    /\ ErrorLogged
    /\ NSystems(db) = NSystems(db0)
    /\ NConfigurations(db) = NConfigurations(db0)

\* C3 amended: after a null result run() returned None, logged an error and
\* loaded no geometry; the database is the one structure handling left
\* before the launch, which is the database of the start when the current
\* configuration of an existing system is overwritten.
C3_NothingCreatedSinceLaunch ==
  NullReturn =>
    /\ ret = "None"
    /\ ErrorLogged
    /\ loaded = << >>
    /\ n_structures = 0
    /\ NSystems(db) - NSystems(db0) \in {0, 1}
    /\ NConfigurations(db) - NConfigurations(db0) \in {0, 1}
    /\ \A c \in 1..NConfigurations(db0) : db.configurations[c] = db0.configurations[c]
    /\ \A c \in (NConfigurations(db0) + 1)..NConfigurations(db) :
         db.configurations[c].geom = "" /\ c = configuration
    /\ (db0.system # 0
        /\ P.structure_handling = "Overwrite the current configuration")
         => db = db0

\* a null result after structure handling created a configuration
C3_Witness ==
  /\ NullReturn
  /\ ret = "None"
  /\ NConfigurations(db) = NConfigurations(db0) + 1

FilePosition(filename) ==
  CHOOSE i \in DOMAIN result.files : result.files[i].name = filename

\* C4 as stated: the files loaded are loaded in the order received, each
\* ends in ".xyz" in a 0-D run and in ".cif" in any other run.
C4_AcceptedByExtension ==
  /\ \A k \in DOMAIN loaded :
       IF ZeroD THEN EndsWith(loaded[k][2], ".xyz")
       ELSE EndsWith(loaded[k][2], ".cif")
  /\ \A j, k \in DOMAIN loaded :
       j < k => FilePosition(loaded[j][2]) < FilePosition(loaded[k][2])

\* C5: the count reported at the end of the run is the number of returned
\* files that were not skipped, and the number of configurations geometry
\* was loaded into, each from one of those files.
C5_CountIsAcceptedAndLoaded ==
  printed # -1 =>
    /\ printed = Cardinality({i \in DOMAIN result.files :
                                Accepted(P, result.files[i].name)})
    /\ printed = Len(loaded)
    /\ printed = Cardinality({loaded[k][1] : k \in DOMAIN loaded})
    /\ \A k \in DOMAIN loaded :
         /\ Accepted(P, loaded[k][2])
         /\ EndsWith(db.configurations[loaded[k][1]].geom, loaded[k][2])

\* a run that reported two structures, having skipped no file
C5_Witness ==
  /\ printed = 2
  /\ Len(loaded) = 2
  /\ loaded[1][1] # loaded[2][1]

SequentialSpellings == {"sequential", "Sequential", "SEQUENTIAL"}

SequentialPolicy ==
  /\ P.configuration_name # NoneStr
  /\ P.configuration_name[1] \in SequentialSpellings

\* C6: under the policy "sequential", in any case of the letters, naming the
\* configuration of the k-th file loaded gives it the name str(k) and goes
\* on to the next file, and the name stays.
C6_Step ==
  /\ (pc = "cfgname" /\ SequentialPolicy) =>
       /\ pc' = "loop"
       /\ n_structures = Len(loaded)
       /\ db'.configurations[loaded[Len(loaded)][1]].name = Str(Len(loaded))
  /\ SequentialPolicy =>
       \A k \in DOMAIN loaded :
         (k < Len(loaded) \/ pc = "loop") =>
           /\ db.configurations[loaded[k][1]].name = Str(k)
           /\ db'.configurations[loaded[k][1]].name = Str(k)

\* C6: every step of a run is as C6_Step says: the k-th configuration loaded
\* is named str(k) under the sequential policy.
C6_SequentialNames == [][C6_Step]_vars

\* the second configuration loaded has the name "2"
C6_Witness ==
  /\ SequentialPolicy
  /\ pc = "returned"
  /\ Len(loaded) = 2
  /\ db.configurations[loaded[1][1]].name = "1"
  /\ db.configurations[loaded[2][1]].name = "2"

FromFilePolicy(policy) ==
  /\ policy # NoneStr
  /\ \E w \in {"from file", "From File"} : Contains(policy[1], w)

\* C7 as stated: a "from file" policy never stops the run, and gives every
\* configuration named so far the title of the file it was loaded from, and
\* the system of the configuration named last the title of that file.
C7_FromFileTitleOfTheFile ==
  /\ err # "UnboundLocalError"
  /\ FromFilePolicy(P.configuration_name) =>
       \A k \in DOMAIN loaded :
         (k < Len(loaded) \/ pc = "loop") =>
           db.configurations[loaded[k][1]].name = "title of " \o loaded[k][2]
  /\ (FromFilePolicy(P.system_name) /\ pc \in {"cfgname", "loop"}
      /\ loaded # << >>) =>
       db.systems[system].name = "title of " \o loaded[Len(loaded)][2]

Unset(policy) == policy = NoneStr \/ policy[1] = ""

KeywordSpellings ==
  {"from file", "From File", "smiles", "SMILES"}

LiteralPolicy(policy) ==
  /\ ~Unset(policy)
  /\ \A w \in KeywordSpellings : ~Contains(policy[1], w)

\* C8: naming the system changes nothing but the name of the target system,
\* naming the configuration nothing but the name of the target
\* configuration; a literal policy string becomes the name as it is written
\* ("sequential" is a literal for a system), and None or "" changes nothing.
C8_Step ==
  /\ pc = "sysname" =>
       /\ db'.configurations = db.configurations
       /\ \A x \in DOMAIN db.systems :
            /\ x # system => db'.systems[x] = db.systems[x]
            /\ db'.systems[x].configuration = db.systems[x].configuration
       /\ Unset(P.system_name) => db' = db /\ pc' = "cfgname"
       /\ LiteralPolicy(P.system_name) =>
            db'.systems[system].name = P.system_name[1] /\ pc' = "cfgname"
  /\ pc = "cfgname" =>
       /\ db'.systems = db.systems
       /\ \A c \in DOMAIN db.configurations :
            /\ c # configuration => db'.configurations[c] = db.configurations[c]
            /\ db'.configurations[c].geom = db.configurations[c].geom
       /\ Unset(P.configuration_name) => db' = db /\ pc' = "loop"
       /\ (LiteralPolicy(P.configuration_name) /\ ~SequentialPolicy) =>
            /\ db'.configurations[configuration].name = P.configuration_name[1]
            /\ pc' = "loop"

\* C8: every step of a run is as C8_Step says: each naming step changes its
\* own name only, a literal as it is written, None and "" nothing.
C8_NamesSetIndependently == [][C8_Step]_vars

\* the same policy string named the system as it is written and the second
\* configuration "2"
C8_Witness ==
  /\ pc = "returned"
  /\ Len(loaded) = 2
  /\ P.system_name = Some("Sequential")
  /\ SequentialPolicy
  /\ db.systems[system].name = "Sequential"
  /\ db.configurations[configuration].name = "2"

\* C9 as stated: once the citations have begun nothing is raised out of
\* run(), and run() returns the successor node.
C9_VersionFailuresSwallowed ==
  cited # << >> =>
    /\ pc # "raised"
    /\ pc = "returned" => ret = "next_node"

Aliases == {"pyxtal_cpc", "pyxtal-exe", "openbabel_jcinf", "obabel-exe"}

Times(alias) == Cardinality({i \in DOMAIN cited : cited[i] = alias})

\* C10: in one run only the four aliases are registered, each at most once.
C10_EachAliasAtMostOnce ==
  /\ Elements(cited) \subseteq Aliases
  /\ \A alias \in Aliases : Times(alias) <= 1

\* a run that registered all four, the versioned ones after their base
C10_Witness ==
  /\ pc = "returned"
  /\ cited = << "pyxtal_cpc", "pyxtal-exe", "openbabel_jcinf", "obabel-exe" >>

\* C20: a step changes the cache only when it is empty, only in the lookup
\* of a run, and only to a version or to "unknown"; a full cache is kept as
\* it is and no step spawns "obabel --version" while the cache is full.
C20_Step ==
  /\ OpenBabel_version # NoneVersion =>
       /\ OpenBabel_version' = OpenBabel_version
       /\ spawned' = spawned
  /\ OpenBabel_version' # OpenBabel_version =>
       /\ pc = "obabel"
       /\ OpenBabel_version = NoneVersion
       /\ OpenBabel_version'.kind \in {"dict", "unknown"}
  /\ spawned' # spawned =>
       /\ OpenBabel_version = NoneVersion
       /\ spawned' = Append(spawned, executions)

\* C20: over the executions of one process the cache starts empty with
\* nothing spawned, and every step is as C20_Step says.
C20_CacheSetOnce ==
  /\ OpenBabel_version = NoneVersion
  /\ spawned = << >>
  /\ [][C20_Step]_vars

\* the last execution went through the lookup with the version the first
\* execution had detected, and only the first spawned the subprocess
C20_Witness ==
  /\ executions = MaxRuns
  /\ pc = "returned"
  /\ ret = "next_node"
  /\ spawned = << 1 >>
  /\ OpenBabel_version.kind = "dict"
  /\ "obabel-exe" \in Elements(cited)

\* the builder has run (lines 241-316 are behind)
Built == pc \notin {"describe", "target", "build"}

\* the argument list has "-d", the code, "-t" and a bound that shows value
HasBound(args, code, value) ==
  \E i \in 1..(Len(args) - 3) :
    /\ SubSeq(args, i, i + 2) = << "-d", code, "-t" >>
    /\ Contains(args[i + 3], Str(value))

\* C11 as stated: once the builder has run on a 1-D request the list has
\* "-d 1 -t" and the area, on a 2-D request "-d 2 -t" and the thickness, and
\* the run does not stop there but launches; a 0-D or 3-D list has no "-t".
C11_BoundFlagThenLaunch ==
  Built =>
    /\ Contains(P.dimensionality, "1-D") =>
         /\ HasBound(cmd, "1", P.area)
         /\ pc = "raised" => launched # << >>
    /\ Contains(P.dimensionality, "2-D") =>
         /\ HasBound(cmd, "2", P.thickness)
         /\ pc = "raised" => launched # << >>
    /\ (Contains(P.dimensionality, "0-D") \/ Contains(P.dimensionality, "3-D"))
         => "-t" \notin Elements(cmd)

Unrecognized ==
  \A w \in {"0-D", "1-D", "2-D", "3-D"} : ~Contains(P.dimensionality, w)

\* C12 as stated: with a dimensionality that contains none of "0-D", "1-D",
\* "2-D", "3-D" run() raises at once: nothing is launched, no file is
\* written, and no system or configuration is obtained or created.
C12_UnrecognizedIsFatal ==
  (Unrecognized /\ pc # "describe") =>
    /\ pc = "raised"
    /\ launched = << >>
    /\ disk = {}
    /\ db = db0
    /\ system = 0
    /\ configuration = 0

\* the runner gave a result and lines 333-361 are behind
PersistDone == launched # << >> /\ ~result.null /\ pc # "persist"

\* lines 333-361 are behind and raised nothing
Ingesting == PersistDone /\ idx > 0

DataLess(f) == f.data = NoneStr

\* C13 as stated: the exception text of a file without data is on disk under
\* the name of the file, the run is never stopped at such a file, and a run
\* that returns has loaded every accepted file that came with data.
C13_PartialOutputContinues ==
  /\ Ingesting =>
       \A i \in DOMAIN result.files :
         (DataLess(result.files[i]) /\ SubSeq(result.files[i].name, 1, 1) # "@") =>
           << result.files[i].name, result.files[i].exception >> \in disk
  /\ (pc = "raised" /\ idx \in DOMAIN result.files) =>
       ~DataLess(result.files[idx])
  /\ (pc = "returned" /\ ret = "next_node") =>
       \A i \in DOMAIN result.files :
         (Accepted(P, result.files[i].name) /\ ~DataLess(result.files[i])) =>
           \E k \in DOMAIN loaded : loaded[k][2] = result.files[i].name

\* C14 as stated: after a result that is not null stdout.txt holds the
\* captured stdout, and stderr.txt is there exactly when stderr is not empty.
C14_StdoutAlwaysWritten ==
  PersistDone =>
    /\ << "stdout.txt", result.stdout >> \in disk
    /\ OnDisk(disk, "stderr.txt") <=> result.stderr # ""

\* C14 amended: after a result that is not null each of stdout.txt and
\* stderr.txt is there exactly when the captured text is not empty, and then
\* it holds that text.
C14_CapturedWrittenWhenNonEmpty ==
  PersistDone =>
    /\ OnDisk(disk, "stdout.txt") <=> result.stdout # ""
    /\ result.stdout # "" => << "stdout.txt", result.stdout >> \in disk
    /\ OnDisk(disk, "stderr.txt") <=> result.stderr # ""
    /\ result.stderr # "" => << "stderr.txt", result.stderr >> \in disk

\* a run whose process wrote to stderr only: stderr.txt and no stdout.txt
C14_Witness ==
  /\ PersistDone
  /\ result.stdout = ""
  /\ result.stderr = "a warning"
  /\ << "stderr.txt", "a warning" >> \in disk
  /\ ~OnDisk(disk, "stdout.txt")

\* where the claim has a returned name written: "@subdir+filename" under
\* subdir/filename, any other name under itself
WrittenTo(filename) ==
  IF SubSeq(filename, 1, 1) = "@"
  THEN LET plus == FindFrom(filename, "+", 1)
       IN  SubSeq(filename, 2, plus - 1) \o "/"
           \o SubSeq(filename, plus + 1, Len(filename))
  ELSE filename

\* C15 as stated: writing the returned files raises nothing, whether the
\* subdirectory is there or not; when ingestion starts every returned file is
\* on disk where its name says; and no file named for a subdirectory fails
\* to be read at ingestion.
C15_ReturnedFilesPersisted ==
  PersistDone =>
    /\ Ingesting
    /\ \A i \in DOMAIN result.files : OnDisk(disk, WrittenTo(result.files[i].name))
    /\ (pc = "raised" /\ idx \in DOMAIN result.files) =>
         ~(SubSeq(result.files[idx].name, 1, 1) = "@" /\ result.files[idx].ok)

\* the configuration that was current when run() started
Current == db0.configurations[db0.systems[db0.system].configuration]

\* a coordinate as the claim has it written: eight decimals
Fixed8(x) == Str(x) \o ".00000000"

\* C16: the in1.xyz given to the runner for build type "molecules" is the
\* only input file and is on disk; its first line is the atom count of the
\* current configuration, its second "<system name>/<configuration name>",
\* and then comes one line per atom, in atom order, of the symbol and the
\* three coordinates; for build type "atoms" there is no input file.
C16_MoleculeInputFile ==
  /\ (Built /\ P.build_type = "atoms") => files = << >>
  /\ launched # << >> => launched[2] = files
  /\ (launched # << >> /\ P.build_type = "molecules") =>
       /\ Len(files) = 1
       /\ files[1][1] = "in1.xyz"
       /\ << "in1.xyz", files[1][2] >> \in disk
       /\ LET lines == SplitLines(files[1][2])
               n == Len(Current.symbols)
           IN  /\ Len(lines) = n + 2
               /\ lines[1] = Str(n)
               /\ lines[2] = db0.systems[db0.system].name \o "/" \o Current.name
               /\ \A i \in 1..n :
                    Split(lines[i + 2]) =
                      << Current.symbols[i], Fixed8(Current.coordinates[i][1]),
                         Fixed8(Current.coordinates[i][2]),
                         Fixed8(Current.coordinates[i][3]) >>

\* the three atoms of "cfg0" went to the runner as a file of five lines
C16_Witness ==
  /\ launched # << >>
  /\ P.build_type = "molecules"
  /\ db0 = OneDB
  /\ Len(SplitLines(launched[2][1][2])) = 5
  /\ SplitLines(launched[2][1][2])[2] = "sys0/cfg0"

\* the argument that follows the flag in the argument list
ArgAfter(args, flag) ==
  args[1 + CHOOSE i \in DOMAIN args : args[i] = flag]

\* the parts of s between the one-character separators sep
RECURSIVE SplitOn(_, _)
SplitOn(s, sep) ==
  LET at == FindFrom(s, sep, 1)
  IN  IF at = 0 THEN << s >>
      ELSE << SubSeq(s, 1, at - 1) >> \o SplitOn(SubSeq(s, at + 1, Len(s)), sep)

\* C17: for build type "atoms" the "-e" and "-n" arguments given to the
\* runner are comma-joined lists of one length, the i-th element and the
\* i-th count being the i-th pair of the parsed formula; "H2O" gives "H,O"
\* and "2,1".
C17_ElementAndCountLists ==
  (launched # << >> /\ P.build_type = "atoms") =>
    LET e == SplitOn(ArgAfter(launched[1], "-e"), ",")
        n == SplitOn(ArgAfter(launched[1], "-n"), ",")
        items == FormulaItems(P.formula, 1)
    IN  /\ Len(e) = Len(items)
        /\ Len(n) = Len(items)
        /\ \A i \in DOMAIN items : e[i] = items[i][1] /\ n[i] = Str(items[i][2])
        /\ P.formula = "H2O" =>
             /\ ArgAfter(launched[1], "-e") = "H,O"
             /\ ArgAfter(launched[1], "-n") = "2,1"

\* "C6H12O6" went to the runner as "C,H,O" and "6,12,6"
C17_Witness ==
  /\ launched # << >>
  /\ P.build_type = "atoms"
  /\ P.formula = "C6H12O6"
  /\ ArgAfter(launched[1], "-e") = "C,H,O"
  /\ ArgAfter(launched[1], "-n") = "6,12,6"

\* C18: when Open Babel cannot read an accepted .xyz file of a 0-D run the
\* run is over: nothing can happen after, the file is neither counted nor
\* loaded, only files before it are loaded, nothing is cited and nothing is
\* returned; and no .xyz file that does not parse is ever loaded.
C18_ParseFailureIsFatal ==
  /\ err = "RuntimeError" =>
       /\ pc = "raised"
       /\ ~ENABLED Next
       /\ ZeroD
       /\ EndsWith(result.files[idx].name, ".xyz")
       /\ \A k \in DOMAIN loaded : FilePosition(loaded[k][2]) < idx
       /\ n_structures = Len(loaded)
       /\ n_structures = Cardinality({i \in 1..(idx - 1) :
                                        Accepted(P, result.files[i].name)})
       /\ cited = << >>
       /\ ret = ""
       /\ printed = -1
  /\ \A k \in DOMAIN loaded :
       (ZeroD /\ EndsWith(loaded[k][2], ".xyz")) =>
         result.files[FilePosition(loaded[k][2])].ok

\* the first of two files did not parse: the second, which would have been
\* accepted, was not ingested
C18_Witness ==
  /\ err = "RuntimeError"
  /\ idx = 1
  /\ result.files[1].data # NoneStr
  /\ Len(result.files) = 2
  /\ Accepted(P, result.files[2].name)
  /\ loaded = << >>

\* the argument list the claim describes for the dimensionality code
ClaimedArguments(args, code) ==
  LET head == << Exe >>
              \o (IF P.build_type = "molecules" THEN << "-m" >> ELSE << >>)
              \o << "-d", code >>
      tail == << "-s", P.symmetry, "-e",
                 IF P.build_type = "molecules" THEN "./in1.xyz"
                 ELSE ElementList(FormulaItems(P.formula, 1)),
                 "-n",
                 IF P.build_type = "molecules" THEN Str(P.n_molecules)
                 ELSE CountList(FormulaItems(P.formula, 1)),
                 "-o", ".", "-a", Str(P.attempts) >>
  IN  IF code \in {"1", "2"}
      THEN /\ Len(args) = Len(head) + 2 + Len(tail)
           /\ SubSeq(args, 1, Len(head)) = head
           /\ args[Len(head) + 1] = "-t"
           /\ SubSeq(args, Len(head) + 3, Len(args)) = tail
      ELSE args = head \o tail

\* C19 as stated: the argument list given to the runner is the executable,
\* "-m" for molecules only, "-d" and the code of the dimensionality, the
\* bound if any, "-s" and the symmetry, "-e" and the elements or "./in1.xyz",
\* "-n" and the counts, "-o" and ".", "-a" and the attempts.
C19_ArgumentOrder ==
  launched # << >> =>
    \E code \in {"0", "1", "2", "3"} :
      /\ Contains(P.dimensionality, code \o "-D")
      /\ ClaimedArguments(launched[1], code)

\* C22: the in1.xyz given to the runner in molecule mode is the text of the
\* configuration that was current when run() started, also when structure
\* handling made a new, empty target; and a molecule-mode run that started
\* without a current system raises in the builder and launches nothing.
C22_MoleculeIsCurrentAtStart ==
  /\ (launched # << >> /\ P.build_type = "molecules") =>
       /\ db0.system # 0
       /\ current_system = db0.system
       /\ current_configuration = db0.systems[db0.system].configuration
       /\ launched[2] =
            << << "in1.xyz",
                  XYZText(db0, db0.system, db0.systems[db0.system].configuration) >> >>
       /\ SplitLines(launched[2][1][2])[1] = Str(Len(Current.symbols))
       /\ Len(Current.symbols) > 0
  /\ (P.build_type = "molecules" /\ db0.system = 0) =>
       /\ launched = << >>
       /\ Built => (pc = "raised" /\ err # "")

\* structure handling made a new, empty configuration, and the three atoms
\* of the configuration that was current went to the runner
C22_Witness ==
  /\ launched # << >>
  /\ P.build_type = "molecules"
  /\ P.structure_handling = "Create a new configuration"
  /\ configuration # current_configuration
  /\ db.configurations[configuration].symbols = << >>
  /\ SplitLines(launched[2][1][2])[1] = "3"

\* the list the claim has offered for a dimensionality that names a code
GroupsOffered(dimensionality) ==
  IF Contains(dimensionality, "0-D") THEN point_groups
  ELSE IF Contains(dimensionality, "1-D") THEN rod_groups
  ELSE space_groups

\* a step that is a reset_dialog(): of create_dialog or of an event
IsReset ==
  \/ ~dialog.created /\ dialog'.created
  \/ dialog.pending /\ ~dialog'.pending

\* C21: a reset_dialog() with a dimensionality of the enumeration leaves the
\* pulldown with the groups of that dimensionality and a symmetry that is one
\* of them: the symmetry it found if that is one of them, the first group
\* otherwise; a change of build type, dimensionality or attempts is followed
\* by the reset before anything else happens in the editor.
C21_Step ==
  /\ (IsReset /\ \E w \in {"0-D", "1-D", "2-D", "3-D"} :
                    Contains(dialog.dimensionality, w)) =>
       LET groups == GroupsOffered(dialog.dimensionality)
       IN  /\ dialog'.dimensionality = dialog.dimensionality
           /\ dialog'.values = groups
           /\ dialog'.symmetry \in Elements(groups)
           /\ dialog.symmetry \in Elements(groups) =>
                dialog'.symmetry = dialog.symmetry
           /\ dialog.symmetry \notin Elements(groups) =>
                dialog'.symmetry = groups[1]
           /\ dialog'.raised = ""
  /\ dialog.pending => IsReset

\* C21: every step in the editor is as C21_Step says.
C21_SymmetryOfTheDimensionality == [][C21_Step]_vars

\* after a change to 1-D the symmetry is the first rod group, the rod groups
\* are offered and the area is laid out
C21_Witness ==
  /\ dialog.created
  /\ ~dialog.pending
  /\ dialog.dimensionality = "1-D rod"
  /\ dialog.values = rod_groups
  /\ dialog.symmetry = "p1"
  /\ "area" \in Elements(dialog.frame1)

====
